---------------------------- MODULE Spec2Model ----------------------------
(***************************************************************************)
(* Isolation forest (anomdet/iforest.py): ITree, ITreeNode, ITreeLeaf,     *)
(* _adjustment and IForest, as state machines.                             *)
(*                                                                         *)
(*   SpecTree  one ITree object: fit (the recursive _grow) and             *)
(*             path_length_and_leaf_size.                                  *)
(*   Spec      one IForest object: fit and predict.                        *)
(*   SpecRun   one IForest object, one statement at a time: fit with its   *)
(*             loop over the trees and every _grow call of each tree,      *)
(*             then one path_length_and_leaf_size call with its loop.      *)
(*                                                                         *)
(* Numbers.  Feature values are integers 0..MaxVal.  random_sample()       *)
(* returns u in [0, 1); the model draws u = k / Resolution for             *)
(* k in 0..Resolution-1, and a split_value is kept in units of             *)
(* 1/Resolution, so a + (b-a)*u is the integer a*Resolution + (b-a)*k and  *)
(* x >= split_value is x*Resolution >= split_value.  subsample_size is     *)
(* kept in units of 1/SubDen.  _adjustment and the summed scores are kept  *)
(* in units of 1/Micro.  A score 2**e is kept as its exponent e, the       *)
(* fraction num/den.  None is the empty tuple, a set value v is <<v>>.     *)
(***************************************************************************)
EXTENDS Integers, Sequences, FiniteSets

\* ---- bounds of the model
MaxVal      == 1    \* feature values are 0..MaxVal
NumCols     == 2    \* n, the number of columns of every matrix
Resolution  == 2    \* random_sample() is k/Resolution
MaxSample   == 4    \* rows of a matrix given to ITree.fit
MaxHeight   == 2    \* height limits given to ITree are 0..MaxHeight
MaxRows     == 2    \* m, rows of a matrix given to IForest.fit
MaxTrees    == 2    \* num_trees is 1..MaxTrees
MaxCfgHeight == 1   \* a configured IForest height_limit is 0..MaxCfgHeight
MaxAbs      == 3    \* an absolute subsample_size is 2..MaxAbs
SubDen      == 4    \* a fractional subsample_size is k/SubDen
MaxQuery    == 1    \* rows of a matrix given to predict
MaxFits     == 2    \* fit is called at most MaxFits times on one IForest
MaxTreeFits == 2    \* fit is called at most MaxTreeFits times on one ITree
MaxRefit    == 2    \* rows of a matrix given to a later ITree.fit on the same ITree

\* ---- units
Micro == 10 ^ 6

VARIABLES
    \* the ITree object of SpecTree
    tree_height_limit,  \* ITree.height_limit
    tree_root,          \* ITree.root: None, or <<the tree without its X fields>>
    tree_grown,         \* the _grow calls of the fit: the tree, each node with the
                        \* matrix X its _grow call was given
    tree_ret,           \* what the last call on the ITree returned
    tree_fits,          \* the number of fit calls on the ITree so far
    \* the interpreter
    int_div_floors,     \* does int / int floor (Python 2) or not (Python 3)
    \* the IForest object of Spec
    num_trees,          \* IForest.num_trees
    height_limit_arg,   \* the height_limit IForest was constructed with: None or <<h>>
    subsample_size,     \* IForest.subsample_size, in units of 1/SubDen
    height_limit,       \* IForest.height_limit: None or <<h>>
    trees,              \* IForest.trees
    psi,                \* IForest.psi: unset (None) or <<psi>>
    m,                  \* fit's local m = X.shape[0] of the last fit: None or <<m>>
    built,              \* fit's local list trees of the last fit
    fits,               \* the number of fit calls so far
    ret,                \* what the last call on the IForest returned
    \* the calls in progress of SpecRun
    run_pc,             \* where the run stands: "idle", "loop", "grow", "fitted",
                        \* "query", "done" ("off" outside SpecRun)
    run_X,              \* fit's argument X
    run_psi,            \* fit's local psi
    run_trees,          \* fit's local list trees
    run_stack,          \* the _grow calls not yet made, the next one first: each with
                        \* its X, its current_height and its place in the tree
    run_nodes,          \* the ITreeLeaf and ITreeNode objects made for the tree being
                        \* grown, each with its place in the tree
    run_q               \* path_length_and_leaf_size's locals treenode and path_length,
                        \* and its argument x

treeVars   == <<tree_height_limit, tree_root, tree_grown, tree_ret, tree_fits>>
forestVars == <<num_trees, subsample_size, height_limit, trees, psi>>
runVars    == <<run_pc, run_X, run_psi, run_trees, run_stack, run_nodes, run_q>>
vars       == <<treeVars, forestVars, height_limit_arg, m, built, fits, ret, runVars,
               int_div_floors>>

None == <<>>

\* ---- matrices and random draws

Rows == [1..NumCols -> 0..MaxVal]

\* the matrices of 1..maxRows rows
Matrices(maxRows) == UNION {[1..k -> Rows] : k \in 1..maxRows}

\* one internal node's draws: randint(n), then random_sample()
Draws == [att : 0..(NumCols - 1), u : 0..(Resolution - 1)]

\* the largest number of internal nodes of a tree over rows rows with limit h:
\* the internal nodes of one depth hold disjoint sets of at least 2 rows
DrawsNeeded(rows, h) == h * (rows \div 2)

DrawSeqs(len) == [1..len -> Draws]

RECURSIVE SeqMin(_)
SeqMin(s) == IF Len(s) = 1 THEN s[1]
             ELSE LET r == SeqMin(Tail(s)) IN IF s[1] < r THEN s[1] ELSE r

RECURSIVE SeqMax(_)
SeqMax(s) == IF Len(s) = 1 THEN s[1]
             ELSE LET r == SeqMax(Tail(s)) IN IF s[1] > r THEN s[1] ELSE r

\* X[:, split_att]
Column(X, split_att) == [i \in 1..Len(X) |-> X[i][split_att + 1]]

\* ---- ITreeLeaf, ITreeNode

\* ITreeLeaf(size); X is the matrix of the _grow call that made it
ITreeLeaf(size, X) == [leaf |-> TRUE, size |-> size, X |-> X]

\* ITreeNode(splitatt, splitvalue), then insert_left and insert_right
ITreeNode(splitatt, splitvalue, left, right, X) ==
    [leaf |-> FALSE, split_attribute |-> splitatt, split_value |-> splitvalue,
     left |-> left, right |-> right, X |-> X]

\* a variant of compare that sends a value equal to split_value to the left
compareMut(treenode, x) ==
    x[treenode.split_attribute + 1] * Resolution > treenode.split_value

\* ITreeNode.compare: TRUE is right, FALSE is left
compare(treenode, x) ==
    x[treenode.split_attribute + 1] * Resolution >= treenode.split_value

\* ---- ITree._grow

\* a variant of GrowStops that stops one level late
GrowStopsMut(rows, current_height, limit) == current_height > limit \/ rows <= 1

\* a variant of GrowStops without the test of the height limit
GrowStopsNoLimit(rows, current_height, limit) == rows <= 1

\* line 135: the call makes a leaf
GrowStops(rows, current_height, limit) == current_height >= limit \/ rows <= 1

\* line 141: a + (b-a)*random_sample(), in units of 1/Resolution
SplitValue(a, b, u) == a * Resolution + (b - a) * u

\* a variant of XLeft that also takes the rows equal to split_value
XLeftMut(X, split_att, split_value) ==
    SelectSeq(X, LAMBDA r : r[split_att + 1] * Resolution <= split_value)

\* line 143: X[X[:, split_att] < split_value]
XLeft(X, split_att, split_value) ==
    SelectSeq(X, LAMBDA r : r[split_att + 1] * Resolution < split_value)

\* a variant of XRight that leaves out the rows equal to split_value
XRightMut(X, split_att, split_value) ==
    SelectSeq(X, LAMBDA r : r[split_att + 1] * Resolution > split_value)

\* line 144: X[X[:, split_att] >= split_value]
XRight(X, split_att, split_value) ==
    SelectSeq(X, LAMBDA r : r[split_att + 1] * Resolution >= split_value)

\* _grow(X, current_height, height_limit) drawing from the stream rs, left subtree
\* first: the tree and what is left of the stream
RECURSIVE ITree_grow(_, _, _, _)
ITree_grow(X, current_height, limit, rs) ==
    IF GrowStops(Len(X), current_height, limit)
    THEN [tree |-> ITreeLeaf(Len(X), X), rs |-> rs]
    ELSE LET split_att   == Head(rs).att
             a           == SeqMin(Column(X, split_att))
             b           == SeqMax(Column(X, split_att))
             split_value == SplitValue(a, b, Head(rs).u)
             X_left      == XLeft(X, split_att, split_value)
             X_right     == XRight(X, split_att, split_value)
             l           == ITree_grow(X_left, current_height + 1, limit, Tail(rs))
             r           == ITree_grow(X_right, current_height + 1, limit, l.rs)
         IN  [tree |-> ITreeNode(split_att, split_value, l.tree, r.tree, X),
              rs   |-> r.rs]

\* the tree as the program holds it: ITreeLeaf(size), ITreeNode(att, value, left, right)
RECURSIVE Strip(_)
Strip(t) ==
    IF t.leaf THEN [leaf |-> TRUE, size |-> t.size]
    ELSE [leaf |-> FALSE, split_attribute |-> t.split_attribute,
          split_value |-> t.split_value,
          left |-> Strip(t.left), right |-> Strip(t.right)]

\* ---- ITree.path_length_and_leaf_size

RECURSIVE Walk(_, _, _)
Walk(treenode, x, path_length) ==
    IF treenode.leaf THEN [path_length |-> path_length, leaf_size |-> treenode.size]
    ELSE IF compare(treenode, x)
         THEN Walk(treenode.right, x, path_length + 1)
         ELSE Walk(treenode.left, x, path_length + 1)

path_length_and_leaf_size(root, x) == Walk(root, x, 0)

\* ---- the ITree object

NoRet == [op |-> "none"]

\* no statement-by-statement run is in play
RunOff ==
    /\ run_pc = "off"
    /\ run_X = None
    /\ run_psi = None
    /\ run_trees = <<>>
    /\ run_stack = <<>>
    /\ run_nodes = {}
    /\ run_q = None

\* the trees _grow(X, 0, limit) can return, each node with its X, over the matrices of
\* at most maxRows rows; the stream holds the draws of one more level than a call
\* consumes
GrownTrees(maxRows, limit) ==
    UNION {{ITree_grow(X, 0, limit, rs).tree :
               rs \in DrawSeqs(DrawsNeeded(Len(X), limit + 1))} :
           X \in Matrices(maxRows)}

\* GrownTrees over the matrices of a later fit, by height limit
Regrown == [limit \in 0..MaxHeight |-> GrownTrees(MaxRefit, limit)]

\* ITree.fit(X): self.root = self._grow(X, 0, self.height_limit); return self.  A later
\* fit on the same ITree replaces root
ITree_fit ==
    /\ tree_fits < MaxTreeFits
    /\ \/ /\ tree_fits = 0
          /\ \E X \in Matrices(MaxSample) :
             \E rs \in DrawSeqs(DrawsNeeded(Len(X), tree_height_limit + 1)) :
                LET g == ITree_grow(X, 0, tree_height_limit, rs).tree IN
                /\ tree_root' = <<Strip(g)>>
                /\ tree_grown' = <<g>>
       \/ /\ tree_fits > 0
          /\ \E g \in Regrown[tree_height_limit] :
                /\ tree_root' = <<Strip(g)>>
                /\ tree_grown' = <<g>>
    /\ tree_fits' = tree_fits + 1
    /\ tree_ret' = [op |-> "fit"]
    /\ UNCHANGED <<int_div_floors, tree_height_limit, forestVars, height_limit_arg, m,
                   built, fits, ret, runVars>>

\* ITree.path_length_and_leaf_size(x)
ITree_query ==
    /\ tree_root # None
    /\ \E x \in Rows :
          LET r == path_length_and_leaf_size(tree_root[1], x) IN
          tree_ret' = [op |-> "query", x |-> x,
                       path_length |-> r.path_length, leaf_size |-> r.leaf_size]
    /\ UNCHANGED <<int_div_floors, tree_height_limit, tree_root, tree_grown, tree_fits,
                   forestVars,
                   height_limit_arg, m, built, fits, ret, runVars>>

\* ITree(height_limit): root is None; no IForest is in play
ITree_init ==
    /\ tree_height_limit \in 0..MaxHeight
    /\ tree_root = None
    /\ tree_grown = None
    /\ tree_ret = NoRet
    /\ tree_fits = 0
    /\ num_trees = 1
    /\ subsample_size = SubDen
    /\ height_limit = None
    /\ height_limit_arg = None
    /\ int_div_floors = TRUE
    /\ trees = <<>>
    /\ psi = None
    /\ m = None
    /\ built = <<>>
    /\ fits = 0
    /\ ret = NoRet
    /\ RunOff

NextTree == ITree_fit \/ ITree_query

SpecTree == ITree_init /\ [][NextTree]_vars

\* ---- _adjustment

\* the Euler-Mascheroni constant 0.5772156649 of line 96, in units of 1/Micro
EulerGamma == 577216

\* np.log(k) in units of 1/Micro, k = 1..8
LnMicro == <<0, 693147, 1098612, 1386294, 1609438, 1791759, 1945910, 2079442>>

\* num / den of line 96 for ints num, den, in units of 1/Micro: Python 2 floors the
\* quotient of two ints, Python 3 does not
IntDiv(num, den) ==
    IF int_div_floors THEN (num \div den) * Micro ELSE (num * Micro) \div den

\* a variant of adjustment without the case n == 2
adjustmentMut(n) ==
    IF n <= 2 THEN 0
    ELSE 2 * (LnMicro[n - 1] + EulerGamma) - IntDiv(2 * (n - 1), n)

\* _adjustment(n) for an int n, in units of 1/Micro
adjustment(n) ==
    IF n <= 1 THEN 0
    ELSE IF n = 2 THEN Micro
    ELSE 2 * (LnMicro[n - 1] + EulerGamma) - IntDiv(2 * (n - 1), n)

\* ---- IForest.fit

\* np.ceil(num / den) for num >= 0, den > 0
Ceil(num, den) == (num + den - 1) \div den

\* np.ceil(np.log2(p)), p >= 1
RECURSIVE CeilLog2From(_, _, _)
CeilLog2From(p, h, pow) == IF pow >= p THEN h ELSE CeilLog2From(p, h + 1, 2 * pow)
CeilLog2(p) == CeilLog2From(p, 0, 1)

\* a variant of ResolvePsi that truncates where np.ceil rounds up
ResolvePsiMut(ss, rows) ==
    IF ss <= SubDen THEN (ss * rows) \div SubDen ELSE ss \div SubDen

\* lines 62-65: psi from subsample_size (in units of 1/SubDen) and m
ResolvePsi(ss, rows) ==
    IF ss <= SubDen THEN Ceil(ss * rows, SubDen) ELSE ss \div SubDen

\* a variant of ResolveHeightLimit that recomputes it in every fit
ResolveHeightLimitMut(hl, p) == <<CeilLog2(p)>>

\* lines 66-67: self.height_limit after the test for None
ResolveHeightLimit(hl, p) == IF hl = None THEN <<CeilLog2(p)>> ELSE hl

\* line 71: the values of random_state.permutation(numdata)[:p], as 1-based row
\* numbers: the sequences without repetition of min(p, numdata) of the numdata rows
SampleInds(numdata, p) ==
    LET len == IF p < numdata THEN p ELSE numdata IN
    {s \in [1..len -> 1..numdata] : \A i, j \in 1..len : i # j => s[i] # s[j]}

\* line 72: X[sample_ind, :]
XSample(X, sample_ind) == [i \in 1..Len(sample_ind) |-> X[sample_ind[i]]]

\* line 73: ITree(height_limit, random_state).fit(X_sample), as IForest holds it
FitTree(X_sample, hl, rs) == Strip(ITree_grow(X_sample, 0, hl, rs).tree)

\* a variant of StoreTrees that appends to the trees of the fits before
StoreTreesMut(old, new) == old \o new

\* line 74: self.trees after the assignment
StoreTrees(old, new) == new

\* lines 70-73: the trees one iteration of the loop can append, over every
\* permutation and every sequence of draws
LoopTrees(X, p, hl) ==
    LET numdata == Len(X)
        len     == IF p < numdata THEN p ELSE numdata
    IN  {FitTree(XSample(X, sample_ind), hl, rs) :
            sample_ind \in SampleInds(numdata, p),
            rs \in DrawSeqs(DrawsNeeded(len, hl))}

\* IForest.fit(X)
IForest_fit ==
    /\ fits < MaxFits
    /\ \E X \in Matrices(MaxRows) :
          LET rows == Len(X)
              p    == ResolvePsi(subsample_size, rows)
              hl   == ResolveHeightLimit(height_limit, p)
          IN  \E new \in [1..num_trees -> LoopTrees(X, p, hl[1])] :
                 /\ height_limit' = hl
                 /\ trees' = StoreTrees(trees, new)
                 /\ built' = new
                 /\ psi' = <<p>>
                 /\ m' = <<rows>>
    /\ fits' = fits + 1
    /\ ret' = [op |-> "fit", value |-> "self"]
    /\ UNCHANGED <<int_div_floors,
                   num_trees, subsample_size, height_limit_arg, treeVars, runVars>>

\* ---- IForest.predict

RECURSIVE SumScores(_, _, _)
\* lines 83-85: scores[i] after the trees ts[k..], in units of 1/Micro
SumScores(ts, k, x) ==
    IF k > Len(ts) THEN 0
    ELSE LET r == path_length_and_leaf_size(ts[k], x)
         IN  r.path_length * Micro + adjustment(r.leaf_size) + SumScores(ts, k + 1, x)

\* line 87: 2**(-scores / len(self.trees) / _adjustment(self.psi)), as its exponent
\* num/den; den = 0 is numpy's division by zero
Score(ts, p, x) == [num |-> 0 - SumScores(ts, 1, x), den |-> Len(ts) * adjustment(p)]

\* a variant of IForest_predict that stores its own m = X.shape[0] as psi
IForest_predictMut ==
    /\ psi # None
    /\ \E X \in Matrices(MaxQuery) :
          /\ ret' = [op |-> "predict", X |-> X,
                     scores |-> [i \in 1..Len(X) |-> Score(trees, psi[1], X[i])]]
          /\ psi' = <<Len(X)>>
    /\ UNCHANGED <<int_div_floors, num_trees, subsample_size, height_limit, trees,
                   height_limit_arg, m, built, fits, treeVars, runVars>>

\* IForest.predict(X) on a fitted forest; before any fit it raises (no self.psi)
IForest_predict ==
    /\ psi # None
    /\ \E X \in Matrices(MaxQuery) :
          ret' = [op |-> "predict", X |-> X,
                  scores |-> [i \in 1..Len(X) |-> Score(trees, psi[1], X[i])]]
    /\ UNCHANGED <<int_div_floors,
                   forestVars, height_limit_arg, m, built, fits, treeVars, runVars>>

\* ---- the IForest object

\* the subsample_size values: fractions k/SubDen <= 1.0, and row counts 2..MaxAbs
SubsampleSizes == (1..SubDen) \cup {SubDen * c : c \in 2..MaxAbs}

\* IForest(num_trees, subsample_size, height_limit); no ITree of its own is in play
IForest_init ==
    /\ int_div_floors \in BOOLEAN
    /\ num_trees \in 1..MaxTrees
    /\ subsample_size \in SubsampleSizes
    /\ height_limit_arg \in {None} \cup {<<h>> : h \in 0..MaxCfgHeight}
    /\ height_limit = height_limit_arg
    /\ trees = <<>>
    /\ psi = None
    /\ m = None
    /\ built = <<>>
    /\ fits = 0
    /\ ret = NoRet
    /\ tree_height_limit = 0
    /\ tree_root = None
    /\ tree_grown = None
    /\ tree_ret = NoRet
    /\ tree_fits = 0
    /\ RunOff

Next == IForest_fit \/ IForest_predict

Spec == IForest_init /\ [][Next]_vars

\* ---- the IForest object, one statement at a time

\* the object made for the place path of the tree being grown
NodeAt(nodes, path) == (CHOOSE e \in nodes : e.path = path).node

\* the tree below the place path, as insert_left and insert_right link it: 0 is left,
\* 1 is right
RECURSIVE Assemble(_, _)
Assemble(nodes, path) ==
    LET n == NodeAt(nodes, path) IN
    IF n.leaf THEN n
    ELSE [leaf |-> FALSE, split_attribute |-> n.split_attribute,
          split_value |-> n.split_value,
          left |-> Assemble(nodes, Append(path, 0)),
          right |-> Assemble(nodes, Append(path, 1))]

\* fit is called: lines 59-69
RunFitBegin ==
    /\ run_pc = "idle"
    /\ \E X \in Matrices(MaxRows) :
          LET p == ResolvePsi(subsample_size, Len(X)) IN
          /\ run_X' = X
          /\ m' = <<Len(X)>>
          /\ run_psi' = p
          /\ height_limit' = ResolveHeightLimit(height_limit, p)
    /\ run_trees' = <<>>
    /\ run_pc' = "loop"
    /\ UNCHANGED <<int_div_floors,
                   num_trees, subsample_size, trees, psi, height_limit_arg, built, fits,
                   ret, treeVars, run_stack, run_nodes, run_q>>

\* one more turn of the loop of fit, lines 70-73 up to the call of _grow(X, 0, ...)
RunLoop ==
    /\ run_pc = "loop"
    /\ Len(run_trees) < num_trees
    /\ \E sample_ind \in SampleInds(Len(run_X), run_psi) :
          run_stack' = <<[X |-> XSample(run_X, sample_ind), current_height |-> 0,
                          path |-> <<>>]>>
    /\ run_nodes' = {}
    /\ run_pc' = "grow"
    /\ UNCHANGED <<int_div_floors,
                   forestVars, height_limit_arg, m, built, fits, ret, treeVars,
                   run_X, run_psi, run_trees, run_q>>

\* one call of _grow, lines 134-142 and 145-146 up to its own calls of _grow: the call
\* for the left subtree is made first, then the one for the right subtree
RunGrowCall ==
    /\ run_pc = "grow"
    /\ run_stack # <<>>
    /\ LET f == Head(run_stack) IN
       IF GrowStops(Len(f.X), f.current_height, height_limit[1])
       THEN /\ run_nodes' = run_nodes \cup
                    {[path |-> f.path, node |-> [leaf |-> TRUE, size |-> Len(f.X)]]}
            /\ run_stack' = Tail(run_stack)
       ELSE \E d \in Draws :
               LET split_att   == d.att
                   a           == SeqMin(Column(f.X, split_att))
                   b           == SeqMax(Column(f.X, split_att))
                   split_value == SplitValue(a, b, d.u)
               IN  /\ run_nodes' = run_nodes \cup
                           {[path |-> f.path,
                             node |-> [leaf |-> FALSE, split_attribute |-> split_att,
                                       split_value |-> split_value]]}
                   /\ run_stack' =
                         <<[X |-> XLeft(f.X, split_att, split_value),
                            current_height |-> f.current_height + 1,
                            path |-> Append(f.path, 0)],
                           [X |-> XRight(f.X, split_att, split_value),
                            current_height |-> f.current_height + 1,
                            path |-> Append(f.path, 1)]>> \o Tail(run_stack)
    /\ UNCHANGED <<int_div_floors,
                   forestVars, height_limit_arg, m, built, fits, ret, treeVars,
                   run_pc, run_X, run_psi, run_trees, run_q>>

\* the outermost _grow returns: ITree.fit returns and line 73 appends the tree
RunGrowReturn ==
    /\ run_pc = "grow"
    /\ run_stack = <<>>
    /\ run_trees' = Append(run_trees, Assemble(run_nodes, <<>>))
    /\ run_nodes' = {}
    /\ run_pc' = "loop"
    /\ UNCHANGED <<int_div_floors,
                   forestVars, height_limit_arg, m, built, fits, ret, treeVars,
                   run_X, run_psi, run_stack, run_q>>

\* the loop of fit is over: lines 74-76, self.trees = trees, self.psi = psi, return self
RunFitReturn ==
    /\ run_pc = "loop"
    /\ Len(run_trees) >= num_trees
    /\ trees' = StoreTrees(trees, run_trees)
    /\ built' = run_trees
    /\ psi' = <<run_psi>>
    /\ fits' = fits + 1
    /\ ret' = [op |-> "fit", value |-> "self"]
    /\ run_pc' = "fitted"
    /\ UNCHANGED <<int_div_floors,
                   num_trees, subsample_size, height_limit, height_limit_arg, m,
                   treeVars, run_X, run_psi, run_trees, run_stack, run_nodes, run_q>>

\* path_length_and_leaf_size(x) is called on one of the trees: lines 120-121
RunQueryBegin ==
    /\ run_pc = "fitted"
    /\ \E k \in 1..Len(trees) : \E x \in Rows :
          run_q' = [treenode |-> trees[k], x |-> x, path_length |-> 0]
    /\ run_pc' = "query"
    /\ UNCHANGED <<int_div_floors,
                   forestVars, height_limit_arg, m, built, fits, ret, treeVars,
                   run_X, run_psi, run_trees, run_stack, run_nodes>>

\* one turn of the loop of path_length_and_leaf_size: lines 122-127
RunQueryStep ==
    /\ run_pc = "query"
    /\ ~run_q.treenode.leaf
    /\ run_q' = [run_q EXCEPT
                    !.treenode = IF compare(run_q.treenode, run_q.x)
                                 THEN run_q.treenode.right ELSE run_q.treenode.left,
                    !.path_length = run_q.path_length + 1]
    /\ UNCHANGED <<int_div_floors,
                   forestVars, height_limit_arg, m, built, fits, ret, treeVars,
                   run_pc, run_X, run_psi, run_trees, run_stack, run_nodes>>

\* treenode is a leaf: line 128 returns (path_length, treenode.size)
RunQueryReturn ==
    /\ run_pc = "query"
    /\ run_q.treenode.leaf
    /\ ret' = [op |-> "query", path_length |-> run_q.path_length,
               leaf_size |-> run_q.treenode.size]
    /\ run_pc' = "done"
    /\ UNCHANGED <<int_div_floors,
                   forestVars, height_limit_arg, m, built, fits, treeVars,
                   run_X, run_psi, run_trees, run_stack, run_nodes, run_q>>

\* IForest(num_trees, subsample_size, height_limit), nothing called yet
RunInit ==
    /\ int_div_floors = TRUE
    /\ num_trees \in 1..MaxTrees
    /\ subsample_size \in SubsampleSizes
    /\ height_limit_arg \in {None} \cup {<<h>> : h \in 0..MaxCfgHeight}
    /\ height_limit = height_limit_arg
    /\ trees = <<>>
    /\ psi = None
    /\ m = None
    /\ built = <<>>
    /\ fits = 0
    /\ ret = NoRet
    /\ tree_height_limit = 0
    /\ tree_root = None
    /\ tree_grown = None
    /\ tree_ret = NoRet
    /\ tree_fits = 0
    /\ run_pc = "idle"
    /\ run_X = None
    /\ run_psi = None
    /\ run_trees = <<>>
    /\ run_stack = <<>>
    /\ run_nodes = {}
    /\ run_q = None

NextRun ==
    \/ RunFitBegin
    \/ RunLoop
    \/ RunGrowCall
    \/ RunGrowReturn
    \/ RunFitReturn
    \/ RunQueryBegin
    \/ RunQueryStep
    \/ RunQueryReturn

\* the interpreter runs the one thread of the program on: a statement that can be run
\* is run
SpecRun == RunInit /\ [][NextRun]_vars /\ WF_vars(NextRun)

\* ---- what the claims speak of

RECURSIVE Height(_)
\* the largest depth of a node of t
Height(t) ==
    IF t.leaf THEN 0
    ELSE LET l == Height(t.left)
             r == Height(t.right)
         IN  1 + (IF l > r THEN l ELSE r)

RECURSIVE LeafTotal(_)
\* the sum of the sizes of the leaves of t
LeafTotal(t) == IF t.leaf THEN t.size ELSE LeafTotal(t.left) + LeafTotal(t.right)

RECURSIVE InternalAt(_, _)
\* the internal nodes of a grown tree, each with its depth
InternalAt(t, depth) ==
    IF t.leaf THEN {}
    ELSE {[node |-> t, depth |-> depth]}
         \cup InternalAt(t.left, depth + 1) \cup InternalAt(t.right, depth + 1)

\* how many rows of X equal r
Count(X, r) == Cardinality({i \in 1..Len(X) : X[i] = r})

\* every row of X has the same value on column split_att
ConstantOn(X, split_att) == \A i \in 1..Len(X) : X[i][split_att + 1] = X[1][split_att + 1]

\* h = ceil(log2(p)), said without computing it: 2^(h-1) < p <= 2^h
IsCeilLog2(h, p) == h >= 0 /\ p <= 2 ^ h /\ (h > 0 => 2 ^ (h - 1) < p)

RECURSIVE BuiltWithLimit(_, _, _)
\* t is a tree _grow builds under limit h: a leaf lies at depth h or holds at most
\* one row, an internal node lies above depth h
BuiltWithLimit(t, depth, h) ==
    IF t.leaf THEN depth = h \/ (t.size <= 1 /\ depth < h)
    ELSE /\ depth < h
         /\ BuiltWithLimit(t.left, depth + 1, h)
         /\ BuiltWithLimit(t.right, depth + 1, h)

\* a score 2**(num/den) lies in (0, 1]: the exponent is a number and is <= 0
InUnitInterval(e) ==
    /\ e.den # 0
    /\ (e.num <= 0 /\ e.den > 0) \/ (e.num >= 0 /\ e.den < 0)

\* ---- claims on the ITree (SpecTree)

\* C1: a tree built with height limit h has no node deeper than h, and no
\* path_length_and_leaf_size query on it returns path_length > h.
C1_PathLengthWithinLimit ==
    tree_root # None =>
        /\ Height(tree_root[1]) <= tree_height_limit
        /\ tree_ret.op = "query" => tree_ret.path_length <= tree_height_limit

\* C1 witness: a query ran its full height limit and stopped on a leaf of several rows
C1_Witness ==
    /\ tree_ret.op = "query"
    /\ tree_height_limit = MaxHeight
    /\ tree_ret.path_length = tree_height_limit
    /\ tree_ret.leaf_size >= 2

\* C2: at every internal node made by _grow, the rows given to the left call and the
\* rows given to the right call are together exactly the rows the node was given, each
\* as often: none is dropped, none is in both.
C2_RowConservation ==
    tree_grown # None =>
        \A n \in InternalAt(tree_grown[1], 0) :
            /\ Len(n.node.left.X) + Len(n.node.right.X) = Len(n.node.X)
            /\ \A r \in Rows :
                  Count(n.node.left.X, r) + Count(n.node.right.X, r) = Count(n.node.X, r)

\* C2 witness: a fit made a node on a constant feature, and a node that parts its
\* rows into two sets that are both split again
C2_Witness ==
    /\ tree_grown # None
    /\ \E n \in InternalAt(tree_grown[1], 0) :
          ConstantOn(n.node.X, n.node.split_attribute)
    /\ \E n \in InternalAt(tree_grown[1], 0) :
          /\ Len(n.node.left.X) >= 2 /\ Len(n.node.right.X) >= 2
          /\ ~n.node.left.leaf /\ ~n.node.right.leaf

\* C10: a node _grow makes on rows that all share one value of the chosen feature has
\* that value as its threshold, a leaf of size 0 on the left and, on the right, the
\* subtree grown from all of its rows one level down.
C10_DegenerateSplit ==
    tree_grown # None =>
        \A n \in InternalAt(tree_grown[1], 0) :
            ConstantOn(n.node.X, n.node.split_attribute) =>
                /\ Len(n.node.X) > 1 /\ n.depth < tree_height_limit
                /\ n.node.split_value
                      = n.node.X[1][n.node.split_attribute + 1] * Resolution
                /\ n.node.left = ITreeLeaf(0, <<>>)
                /\ n.node.right.X = n.node.X
                /\ BuiltWithLimit(n.node.right, n.depth + 1, tree_height_limit)

\* C10 witness: a fit split twice in a row on a constant feature, the second time at
\* the last level
C10_Witness ==
    /\ tree_grown # None
    /\ \E n \in InternalAt(tree_grown[1], 0) :
          /\ n.depth = 0
          /\ ConstantOn(n.node.X, n.node.split_attribute)
          /\ ~n.node.right.leaf
          /\ ConstantOn(n.node.right.X, n.node.right.split_attribute)
          /\ n.node.right.right.leaf
          /\ n.node.right.right.size = Len(n.node.X)

\* does row x occur in the matrix X
InMatrix(X, x) == \E i \in 1..Len(X) : X[i] = x

RECURSIVE LeavesHolding(_, _, _)
\* the leaves of a grown tree whose _grow call was given row x, each with its depth
LeavesHolding(t, x, depth) ==
    IF t.leaf THEN (IF InMatrix(t.X, x) THEN {[leaf |-> t, depth |-> depth]} ELSE {})
    ELSE LeavesHolding(t.left, x, depth + 1) \cup LeavesHolding(t.right, x, depth + 1)

RECURSIVE RoutedAsGrown(_, _)
\* from node t down, the branch compare takes for x at each node is the side whose
\* _grow call was given x, and the other side was not given it
RoutedAsGrown(t, x) ==
    IF t.leaf THEN TRUE
    ELSE IF compare(t, x)
         THEN InMatrix(t.right.X, x) /\ ~InMatrix(t.left.X, x) /\ RoutedAsGrown(t.right, x)
         ELSE InMatrix(t.left.X, x) /\ ~InMatrix(t.right.X, x) /\ RoutedAsGrown(t.left, x)

\* C12: a path_length_and_leaf_size query for a row x of the matrix the tree was fitted
\* on takes at every node the branch x was partitioned into by _grow; x was counted in
\* exactly one leaf, and the query returns that leaf's depth and its size, which is >= 1.
C12_QueryFollowsGrow ==
    (tree_ret.op = "query" /\ InMatrix(tree_grown[1].X, tree_ret.x)) =>
        /\ RoutedAsGrown(tree_grown[1], tree_ret.x)
        /\ tree_ret.leaf_size >= 1
        /\ \E l \in LeavesHolding(tree_grown[1], tree_ret.x, 0) :
              /\ LeavesHolding(tree_grown[1], tree_ret.x, 0) = {l}
              /\ tree_ret.path_length = l.depth
              /\ tree_ret.leaf_size = l.leaf.size
              /\ tree_ret.leaf_size = Len(l.leaf.X)

\* C12 witness: a query for a fitted row came through a node split on a constant feature,
\* whose left leaf has size 0, then through a node that parts its rows, where it went
\* left, and ended at depth 2 on a leaf of one row
C12_Witness ==
    /\ tree_ret.op = "query"
    /\ InMatrix(tree_grown[1].X, tree_ret.x)
    /\ ~tree_grown[1].leaf
    /\ ConstantOn(tree_grown[1].X, tree_grown[1].split_attribute)
    /\ tree_grown[1].left.size = 0
    /\ ~tree_grown[1].right.leaf
    /\ ~compare(tree_grown[1].right, tree_ret.x)
    /\ tree_ret.path_length = 2
    /\ tree_ret.leaf_size = 1

\* ---- claims on the run, statement by statement (SpecRun)

\* the most _grow calls the call f can give rise to, itself included, under limit: the
\* nodes of a full binary tree from f's height down to the limit
FrameWeight(f, limit) ==
    IF f.current_height > limit THEN 0 ELSE 2 ^ (limit - f.current_height + 1) - 1

RECURSIVE StackWeight(_, _)
\* the most _grow calls still to come
StackWeight(stack, limit) ==
    IF stack = <<>> THEN 0
    ELSE FrameWeight(Head(stack), limit) + StackWeight(Tail(stack), limit)

\* the run is over: fit has stored num_trees trees and the query stands on a leaf
RunDone ==
    /\ run_pc = "done"
    /\ Len(trees) = num_trees
    /\ run_q.treenode.leaf

\* what a step of the run does to the work that is left
RunStepLowers ==
    /\ (run_pc = "grow" /\ run_stack # <<>>) =>
          /\ StackWeight(run_stack', height_limit[1])
                 < StackWeight(run_stack, height_limit[1])
          /\ StackWeight(run_stack', height_limit[1]) >= 0
    /\ (run_pc = "grow" /\ run_pc' = "loop") =>
          /\ Len(run_trees') = Len(run_trees) + 1
          /\ Height(run_trees'[Len(run_trees')]) <= height_limit[1]
    /\ (run_pc = "query" /\ run_pc' = "query") =>
          /\ Height(run_q'.treenode) < Height(run_q.treenode)
          /\ run_q'.path_length = run_q.path_length + 1

\* C11: whatever the sample, the height limit and the draws, among them draws that pick
\* a constant feature again and again, every _grow call lowers the number of _grow calls
\* that can still come, which is finite, and the outermost call returns a tree no higher
\* than the limit; every turn of the loop of fit adds one tree; every turn of the loop
\* of path_length_and_leaf_size moves to a node of lower height; and the run reaches
\* its end, with num_trees trees stored and the query on a leaf.
C11_Termination == [][RunStepLowers]_vars /\ <>RunDone

\* C11 witness: the run is over for a forest of MaxTrees trees, one of them grown by
\* picking a constant feature at the root and again below it, and the query walked
\* down that tree to its deepest leaf
C11_Witness ==
    /\ RunDone
    /\ num_trees = MaxTrees
    /\ run_q.path_length = 2
    /\ \E k \in 1..Len(trees) :
          /\ ~trees[k].leaf
          /\ trees[k].left = [leaf |-> TRUE, size |-> 0]
          /\ ~trees[k].right.leaf
          /\ trees[k].right.left = [leaf |-> TRUE, size |-> 0]
          /\ trees[k].right.right = run_q.treenode

\* ---- claims on the IForest (Spec)

\* C3: after a fit with psi >= 2, every score predict returns lies in (0, 1].
C3_ScoreRange ==
    (ret.op = "predict" /\ psi[1] >= 2) =>
        \A i \in 1..Len(ret.scores) : InUnitInterval(ret.scores[i])

\* C3 witness: predict returned a score below 1 under a psi of the logarithm branch
C3_Witness ==
    /\ ret.op = "predict"
    /\ psi[1] >= 3
    /\ ret.scores[1].num < 0

\* C5: the psi a fit stores is ceil(subsample_size * m) when subsample_size <= 1.0 and
\* subsample_size itself when it is > 1.0; so it is over 100 rows, and for
\* subsample_size = 10 over 10 rows and more.
C5_PsiResolution ==
    /\ psi # None =>
          /\ subsample_size <= SubDen =>
                /\ psi[1] * SubDen >= subsample_size * m[1]
                /\ (psi[1] - 1) * SubDen < subsample_size * m[1]
          /\ subsample_size > SubDen => psi[1] * SubDen = subsample_size
    /\ \A ss \in 1..SubDen :
          LET p == ResolvePsi(ss, 100)
          IN  p * SubDen >= ss * 100 /\ (p - 1) * SubDen < ss * 100
    /\ \A rows \in 10..12 : ResolvePsi(10 * SubDen, rows) = 10

\* C5 witness: a fit stored a psi that ceil rounded up
C5_Witness ==
    /\ psi # None
    /\ subsample_size < SubDen
    /\ (subsample_size * m[1]) % SubDen # 0
    /\ psi[1] = 1 + (subsample_size * m[1]) \div SubDen

\* C6 as claimed: the stored psi is at most m and is the number of rows each tree
\* was built from.
C6_PsiWithinData ==
    psi # None =>
        /\ psi[1] <= m[1]
        /\ \A i \in 1..Len(trees) : LeafTotal(trees[i]) = psi[1]

\* C7: a predict call leaves the forest as it was, and a predict on the rows of the
\* predict before it returns the same scores.
C7_PredictReadOnly ==
    [][ret'.op = "predict" =>
          /\ forestVars' = forestVars
          /\ (ret.op = "predict" /\ ret.X = ret'.X) => ret'.scores = ret.scores]_vars

\* C7 witness: predict ran on a forest of several trees, one of them with a split
C7_Witness ==
    /\ ret.op = "predict"
    /\ Len(trees) >= 2
    /\ ~trees[1].leaf

\* C8: after any fit calls the forest holds num_trees trees, the ones the last fit
\* built from subsamples of its data, the stored psi is the one that fit resolved,
\* and fit returned the forest.
C8_TreesOfLastFit ==
    fits >= 1 =>
        /\ Len(trees) = num_trees
        /\ trees = built
        /\ \A i \in 1..Len(trees) :
              /\ LeafTotal(trees[i]) = (IF psi[1] < m[1] THEN psi[1] ELSE m[1])
              /\ BuiltWithLimit(trees[i], 0, height_limit[1])
        /\ psi # None
        /\ subsample_size <= SubDen =>
              /\ psi[1] * SubDen >= subsample_size * m[1]
              /\ (psi[1] - 1) * SubDen < subsample_size * m[1]
        /\ subsample_size > SubDen => psi[1] * SubDen = subsample_size
        /\ ret.op = "fit" => ret.value = "self"

\* C8 witness: a second fit returned with psi = 1 on a forest whose first fit had
\* resolved a larger psi, the one its cached height_limit comes from
C8_Witness ==
    /\ fits = 2
    /\ ret.op = "fit"
    /\ Len(trees) = MaxTrees
    /\ height_limit_arg = None
    /\ height_limit[1] >= 1
    /\ psi[1] = 1

\* C9: a fit on a forest without height_limit sets it to ceil(log2(psi)) of that
\* fit; a fit on a forest that has one keeps it, and builds its trees with it.
C9_HeightLimitCached ==
    [][ret'.op = "fit" =>
          /\ height_limit = None => IsCeilLog2(height_limit'[1], psi'[1])
          /\ height_limit # None => height_limit' = height_limit
          /\ \A i \in 1..Len(trees') : BuiltWithLimit(trees'[i], 0, height_limit'[1])
       ]_vars

\* C9 witness: a later fit resolved a psi whose ceil(log2(psi)) is not the
\* height_limit it built with
C9_Witness ==
    /\ fits = 2
    /\ ret.op = "fit"
    /\ height_limit_arg = None
    /\ psi[1] = 2
    /\ height_limit = <<0>>
    /\ \A i \in 1..Len(trees) : trees[i].leaf /\ trees[i].size = 2

=============================================================================
